---- MODULE Spec2Model ----
(***************************************************************************)
(* A model of package octree (src/octree.go): the point-region octree      *)
(* engine with its package-level state _octree, _stats and _builder and    *)
(* its operations Make, Query, Export, Import, Summarize and Histogram.    *)
(*                                                                         *)
(* Numbers.  A float64 is modelled in fixed point: an integer number of    *)
(* units, one unit being 1/12 of the coordinate scale.  The data points    *)
(* have coordinates that are multiples of 12 units, so that the sums,      *)
(* means of up to 4 values and half-sums the code computes are exact, as   *)
(* they are in float64 for small integral data.  A division that is not    *)
(* exact rounds to the nearest unit.                                       *)
(*                                                                         *)
(* Strings.  A Go string is a sequence of bytes (numbers 0..255); the      *)
(* method names and the halt reasons, which the code only compares or      *)
(* prints, are TLA+ strings.                                               *)
(*                                                                         *)
(* Sequences are 1-based: Go's s[i] is s[i+1] here (see At)       .        *)
(***************************************************************************)
EXTENDS Integers, Sequences, FiniteSets, TLC

VARIABLES
    _octree,    \* []node: the node list
    _stats,     \* statistics: meta data and statistics of the tree
    _builder,   \* builderFn: the closure makeBuilder returned, with its captured variables
    file,       \* the content of the JSON file Export writes and Import reads
    halted,     \* "" while the process runs, else why it stopped (halt, panic, stack overflow)
    last,       \* the last call: its name, arguments, result and, for Query, descent path
    calls,      \* number of calls made so far
    origin,     \* the last Make or Import that returned, and how many have returned
    points      \* the caller's DataSet, which Make is given a reference to

vars == <<_octree, _stats, _builder, file, halted, last, calls, origin, points>>

----------------------------------------------------------------------------
(* Bounds of the model *)

MaxT == 3        \* the thresholds terminal_N range over 0..MaxT
MaxCalls == 3    \* length of the call sequences explored

----------------------------------------------------------------------------
(* Generic helpers for Go values *)

Range(s) == {s[i] : i \in 1..Len(s)}

At(s, i) == s[i + 1]

InRange(s, i) == i >= 0 /\ i < Len(s)

Min2(a, b) == IF a < b THEN a ELSE b

Max2(a, b) == IF a > b THEN a ELSE b

Abs(a) == IF a < 0 THEN -a ELSE a

\* float64 division a / b for b > 0, rounded to the nearest unit
FDiv(a, b) == (2 * a + b) \div (2 * b)

RECURSIVE SumOver(_, _)
SumOver(S, f) ==
    IF S = {} THEN 0
    ELSE LET x == CHOOSE y \in S : TRUE IN f[x] + SumOver(S \ {x}, f)

RECURSIVE SumSeq(_)
SumSeq(s) == IF s = <<>> THEN 0 ELSE Head(s) + SumSeq(Tail(s))

\* sort.Sort(sort.Float64Slice(x)): the ascending arrangement of the values of f over S
RECURSIVE SortedValues(_, _)
SortedValues(S, f) ==
    IF S = {} THEN <<>>
    ELSE LET x == CHOOSE y \in S : \A z \in S : f[y] <= f[z]
         IN <<f[x]>> \o SortedValues(S \ {x}, f)

----------------------------------------------------------------------------
(* Byte strings *)

Comma == 44

\* strings.Join(keys, ",")
RECURSIVE Join(_)
Join(keys) ==
    IF keys = <<>> THEN <<>>
    ELSE IF Len(keys) = 1 THEN keys[1]
    ELSE keys[1] \o <<Comma>> \o Join(Tail(keys))

\* strings.Split(s, ","): always at least one field
RECURSIVE Split(_)
Split(s) ==
    IF \A i \in 1..Len(s) : s[i] # Comma THEN <<s>>
    ELSE LET i == CHOOSE j \in 1..Len(s) : s[j] = Comma /\ \A h \in 1..(j - 1) : s[h] # Comma
         IN <<SubSeq(s, 1, i - 1)>> \o Split(SubSeq(s, i + 1, Len(s)))

----------------------------------------------------------------------------
(* Inputs *)

Methods == {"Centroid", "DataMidPoint", "Geometric Median", "XYZ Medians"}

----------------------------------------------------------------------------
(* Octree build & query: the pure functions *)

\* assignOctant (octree.go 380-387): bit k is set when point[k] > center[k]
\* a faulty assignOctant: a coordinate equal to the center's goes to the high side
assignOctantTieHigh(refCenter, refPoint) ==
    SumSeq([k \in 1..3 |-> IF refPoint[k] >= refCenter[k] THEN 2 ^ (k - 1) ELSE 0])

assignOctant(refCenter, refPoint) ==
    SumSeq([k \in 1..3 |-> IF refPoint[k] > refCenter[k] THEN 2 ^ (k - 1) ELSE 0])

\* the largest r in lo..hi with r * r <= n, given lo * lo <= n < (hi + 1) * (hi + 1)
RECURSIVE SqrtFloor(_, _, _)
SqrtFloor(n, lo, hi) ==
    IF lo = hi THEN lo
    ELSE IF ((lo + hi + 1) \div 2) * ((lo + hi + 1) \div 2) <= n
    THEN SqrtFloor(n, (lo + hi + 1) \div 2, hi)
    ELSE SqrtFloor(n, lo, ((lo + hi + 1) \div 2) - 1)

RoundRoot(n, r) == IF n - r * r > r THEN r + 1 ELSE r

\* math.Sqrt of a number n >= 0 of squared units, rounded to the nearest unit
Sqrt(n) == RoundRoot(n, SqrtFloor(n, 0, Min2(n, 46340)))

\* a DataCoords whose three coordinates are NaN
NaN3 == <<>>

\* the fixed-point image of 1.0 in the reciprocals 1./metric of calcWeiszfeldEstimate
Resolution == 100000

\* float64 division by a divisor of either sign
FDivS(a, b) == IF b < 0 THEN FDiv(-a, -b) ELSE FDiv(a, b)

\* calcAitkenEstimate (octree.go 388-397)
calcAitkenEstimate(e0, e1, e2) ==
    IF e0 = NaN3 \/ e1 = NaN3 \/ e2 = NaN3 THEN NaN3
    ELSE [k \in 1..3 |->
            IF e2[k] - 2 * e1[k] + e0[k] # 0
            THEN e0[k] - FDivS((e1[k] - e0[k]) * (e1[k] - e0[k]), e2[k] - 2 * e1[k] + e0[k])
            ELSE e2[k]]

\* the quotients of calcWeiszfeldEstimate (octree.go 410-413), metric[i] being the distance
\* of point i to the estimate.  A distance 0 makes denom +Inf and every num[k] +Inf or
\* NaN, so that the three quotients are NaN.
weiszfeldQuotient(refPoints, metric) ==
    IF \E i \in DOMAIN refPoints : metric[i] = 0 THEN NaN3
    ELSE [k \in 1..3 |->
            FDiv(SumOver(DOMAIN refPoints,
                         [i \in DOMAIN refPoints |-> FDiv(refPoints[i][k] * Resolution, metric[i])]),
                 SumOver(DOMAIN refPoints,
                         [i \in DOMAIN refPoints |-> FDiv(Resolution, metric[i])]))]

\* calcWeiszfeldEstimate (octree.go 398-415)
calcWeiszfeldEstimate(refPoints, refEstimate) ==
    IF refEstimate = NaN3 THEN NaN3
    ELSE weiszfeldQuotient(refPoints,
            [i \in DOMAIN refPoints |->
                Sqrt(SumSeq([k \in 1..3 |->
                    (refPoints[i][k] - refEstimate[k]) * (refPoints[i][k] - refEstimate[k])]))])

\* the package variable MaxIterations (octree.go 60), which the caller may set: its
\* default is 1000; the model runs with a small value that, like 1000, is 1 modulo 3
MaxIterations == 10

\* Tol (octree.go 61) is 1.0E-12, less than one unit: d < Tol exactly when d is 0 units
Tol == 1

\* the "Centroid" center without the division of the sums by the number of points
calcCentroidSum(refPoints) ==
    [k \in 1..3 |-> SumOver(DOMAIN refPoints, [i \in DOMAIN refPoints |-> refPoints[i][k]])]

\* the "Centroid" center (octree.go 463-473)
calcCentroid(refPoints) ==
    [k \in 1..3 |->
        FDiv(SumOver(DOMAIN refPoints, [i \in DOMAIN refPoints |-> refPoints[i][k]]),
             Cardinality(DOMAIN refPoints))]

\* the "DataMidPoint" center (octree.go 475-492)
calcDataMidPoint(refPoints) ==
    [k \in 1..3 |->
        FDiv((CHOOSE x \in {refPoints[i][k] : i \in DOMAIN refPoints} :
                 \A i \in DOMAIN refPoints : x <= refPoints[i][k])
             + (CHOOSE x \in {refPoints[i][k] : i \in DOMAIN refPoints} :
                 \A i \in DOMAIN refPoints : x >= refPoints[i][k]),
             2)]

\* |a - b| per axis (octree.go 513-515); NaN when either estimate is NaN
Diffs(a, b) == IF a = NaN3 \/ b = NaN3 THEN NaN3 ELSE [k \in 1..3 |-> Abs(a[k] - b[k])]

\* the convergence test (octree.go 517): false when the differences are NaN
Converged(d) == d # NaN3 /\ Max2(d[1], Max2(d[2], d[3])) < Tol

\* the next guess medians[0] (octree.go 522-528): a comparison with NaN is false
nextGuess(diffs1, diffs2, diffs3, medians2, medians3) ==
    IF diffs1 = NaN3 \/ diffs2 = NaN3 \/ diffs3 = NaN3 THEN medians2
    ELSE [k \in 1..3 |->
            IF diffs1[k] > diffs2[k] /\ diffs2[k] > diffs3[k] THEN medians3[k] ELSE medians2[k]]

\* The "Geometric Median" iteration (octree.go 506-531) from the guess medians0 with the
\* counter at iterations: geometricMedianLoop is the test of the outer loop, gmCtrl1,
\* gmCtrl2 and gmCtrl3 are the passes ctrl = 1, 2, 3 of the inner loop after the new
\* estimate is computed.  The result holds the center returned, or the halt, the value
\* of the counter, the number of estimates computed (calls of calcWeiszfeldEstimate and
\* calcAitkenEstimate) and the differences diffs[ctrl] that ended the iteration.
RECURSIVE geometricMedianLoop(_, _, _)
gmCtrl3(refPoints, medians0, medians1, medians2, medians3, iterations) ==
    IF Converged(Diffs(medians3, medians2))
    THEN [halt |-> "", center |-> medians3, iterations |-> iterations,
          estimates |-> iterations + 3, diffs |-> Diffs(medians3, medians2)]
    ELSE geometricMedianLoop(refPoints,
                             nextGuess(Diffs(medians1, medians0), Diffs(medians2, medians1),
                                       Diffs(medians3, medians2), medians2, medians3),
                             iterations + 3)

gmCtrl2(refPoints, medians0, medians1, medians2, iterations) ==
    IF Converged(Diffs(medians2, medians1))
    THEN [halt |-> "", center |-> medians2, iterations |-> iterations,
          estimates |-> iterations + 2, diffs |-> Diffs(medians2, medians1)]
    ELSE gmCtrl3(refPoints, medians0, medians1, medians2,
                 calcAitkenEstimate(medians0, medians1, medians2), iterations)

gmCtrl1(refPoints, medians0, medians1, iterations) ==
    IF Converged(Diffs(medians1, medians0))
    THEN [halt |-> "", center |-> medians1, iterations |-> iterations,
          estimates |-> iterations + 1, diffs |-> Diffs(medians1, medians0)]
    ELSE gmCtrl2(refPoints, medians0, medians1,
                 calcWeiszfeldEstimate(refPoints, medians1), iterations)

geometricMedianLoop(refPoints, medians0, iterations) ==
    IF ~(iterations < MaxIterations)
    THEN [halt |-> "MaxIterationsExceeded", center |-> NaN3, iterations |-> iterations,
          estimates |-> iterations, diffs |-> NaN3]
    ELSE gmCtrl1(refPoints, medians0, calcWeiszfeldEstimate(refPoints, medians0), iterations)

\* a faulty medianOf: the upper central value is taken for an even count too
medianOfUpper(ordinates, numPts) == At(ordinates, numPts \div 2)

\* the median of the sorted ordinates (octree.go 538, 548-549)
medianOf(ordinates, numPts) ==
    IF numPts % 2 # 0 THEN At(ordinates, numPts \div 2)
    ELSE FDiv(At(ordinates, (numPts \div 2) - 1) + At(ordinates, numPts \div 2), 2)

\* the "XYZ Medians" center (octree.go 534-552)
calcXYZMedians(refPoints) ==
    [k \in 1..3 |->
        medianOf(SortedValues(DOMAIN refPoints, [i \in DOMAIN refPoints |-> refPoints[i][k]]),
                 Cardinality(DOMAIN refPoints))]

\* the center calculator makeCalcCenter(method) returns (octree.go 460-557), applied to
\* refPoints: the center, or the halt of the "Geometric Median" iteration
calcCenter(method, refPoints) ==
    CASE method = "Centroid" ->
            [halt |-> "", center |-> calcCentroid(refPoints), iterations |-> 0,
             estimates |-> 0, diffs |-> NaN3]
      [] method = "DataMidPoint" ->
            [halt |-> "", center |-> calcDataMidPoint(refPoints), iterations |-> 0,
             estimates |-> 0, diffs |-> NaN3]
      [] method = "Geometric Median" ->
            geometricMedianLoop(refPoints, calcCentroid(refPoints), 0)
      [] method = "XYZ Medians" ->
            [halt |-> "", center |-> calcXYZMedians(refPoints), iterations |-> 0,
             estimates |-> 0, diffs |-> NaN3]

----------------------------------------------------------------------------
(* The engine state (octree.go 342-378) *)

\* node{} : the zero value of a node
blankNode == [N |-> 0, CENTER |-> <<0, 0, 0>>, CHILDREN |-> <<0, 0, 0, 0, 0, 0, 0, 0>>, KEYS |-> <<>>]

\* the zero value of statistics
blankStats ==
    [HOW |-> "", SIZE |-> 0, STOP |-> 0, TIME |-> 0, LEAFCOUNTS |-> <<>>,
     MINPTS |-> <<>>, MAXPTS |-> <<>>, NUMPARENTS |-> <<>>, NUMPTS |-> <<>>,
     NUMLEAVES |-> <<>>, NUMEMPTY |-> <<>>, OCTREELEN |-> <<>>, TERMINAL_N |-> <<>>,
     MU |-> <<>>, SIGMA |-> <<>>, LOWER |-> <<>>, UPPER |-> <<>>, XMIN |-> 0, XMAX |-> 0]

\* the variables a builder closure captures (octree.go 417-423); set is FALSE for the
\* nil value _builder has before the first Make.  aligned is a history of the closure's
\* run: at each append so far, masterNodeIdx was the index of the node appended.
blankBuilder ==
    [set |-> FALSE, method |-> "", current |-> 0, masterNodeIdx |-> 0, terminal_N |-> 0, total |-> 0,
     aligned |-> TRUE]

----------------------------------------------------------------------------
(* Reporting: calcStats (octree.go 559-595) *)

\* the decimal digits of n >= 0
RECURSIVE Digits(_)
Digits(n) == IF n < 10 THEN <<48 + n>> ELSE Digits(n \div 10) \o <<48 + (n % 10)>>

\* humanize.Comma of n >= 0: decimal digits in groups of three separated by commas
RECURSIVE HumanizeNat(_)
HumanizeNat(n) ==
    IF n < 1000 THEN Digits(n)
    ELSE HumanizeNat(n \div 1000) \o <<Comma>>
         \o <<48 + ((n \div 100) % 10), 48 + ((n \div 10) % 10), 48 + (n % 10)>>

\* humanize.Comma (octree.go 581-588)
HumanizeComma(n) == IF n < 0 THEN <<45>> \o HumanizeNat(-n) ELSE HumanizeNat(n)

\* the text of h >= 0 hundredths with two decimals
TwoDecimals(h) == Digits(h \div 100) \o <<46, 48 + ((h \div 10) % 10), 48 + (h % 10)>>

\* fmt.Sprintf("%.2f", x) (octree.go 589-592) for x given in thousandths
Sprintf2f(x) ==
    IF x < 0 THEN <<45>> \o TwoDecimals(FDiv(-x, 10)) ELSE TwoDecimals(FDiv(x, 10))

\* the values N of the nodes of oct that are leaves under the threshold STOP, in
\* node-list order (octree.go 564-569)
LeafNs(oct, STOP) ==
    [i \in 1..Len(SelectSeq(oct, LAMBDA v : ~(v.N > STOP))) |->
        SelectSeq(oct, LAMBDA v : ~(v.N > STOP))[i].N]

MinSeq(s) == CHOOSE x \in Range(s) : \A y \in Range(s) : x <= y

MaxSeq(s) == CHOOSE x \in Range(s) : \A y \in Range(s) : x >= y

\* sigma in thousandths (octree.go 578-579) of the leaf counts with mean mu thousandths
sigmaOf(LEAFCOUNTS, mu) ==
    Sqrt(FDiv(SumSeq([i \in 1..Len(LEAFCOUNTS) |->
                         (1000 * LEAFCOUNTS[i] - mu) * (1000 * LEAFCOUNTS[i] - mu)]),
              Len(LEAFCOUNTS)))

\* the fields calcStats sets (octree.go 581-594)
statsFields(st, numPts, numNodes, LEAFCOUNTS, mu, sigma) ==
    [st EXCEPT !.LEAFCOUNTS = LEAFCOUNTS,
               !.NUMPTS = HumanizeComma(numPts),
               !.MINPTS = HumanizeComma(MinSeq(LEAFCOUNTS)),
               !.MAXPTS = HumanizeComma(MaxSeq(LEAFCOUNTS)),
               !.NUMPARENTS = HumanizeComma(numNodes - Len(LEAFCOUNTS)),
               !.NUMLEAVES = HumanizeComma(Len(LEAFCOUNTS)),
               !.NUMEMPTY = HumanizeComma(Len(SelectSeq(LEAFCOUNTS, LAMBDA n : n = 0))),
               !.OCTREELEN = HumanizeComma(st.SIZE),
               !.TERMINAL_N = HumanizeComma(st.STOP),
               !.MU = Sprintf2f(mu),
               !.SIGMA = Sprintf2f(sigma),
               !.LOWER = Sprintf2f(mu - sigma),
               !.UPPER = Sprintf2f(mu + sigma),
               !.XMIN = MinSeq(LEAFCOUNTS),
               !.XMAX = MaxSeq(LEAFCOUNTS)]

\* mu in thousandths (octree.go 576-577), then sigma
statsOfLeaves(st, numPts, numNodes, LEAFCOUNTS, mu) ==
    statsFields(st, numPts, numNodes, LEAFCOUNTS, mu, sigmaOf(LEAFCOUNTS, mu))

statsOfCounts(st, numPts, numNodes, LEAFCOUNTS) ==
    statsOfLeaves(st, numPts, numNodes, LEAFCOUNTS,
                  FDiv(1000 * SumSeq(LEAFCOUNTS), Len(LEAFCOUNTS)))

\* a faulty calcStats: the leaf counts of the earlier tree are not cleared
calcStatsNoReset(oct, st) ==
    statsOfCounts(st, At(oct, 0).N, Len(oct), st.LEAFCOUNTS \o LeafNs(oct, st.STOP))

\* calcStats (octree.go 559-595) applied to the node list oct and the statistics st, of
\* which the caller has set HOW, SIZE, STOP and TIME.  oct holds a node 0 and a leaf.
calcStats(oct, st) == statsOfCounts(st, At(oct, 0).N, Len(oct), LeafNs(oct, st.STOP))

----------------------------------------------------------------------------
(* Octree build: the closure makeBuilder returns (octree.go 416-459).  A run of the   *)
(* builder is a record b: the node list octree, the closure's captured variables      *)
(* closure, and halt, which is "" until the run stops.                                *)

\* a faulty childPtsOf: the build sends a coordinate equal to the center's to the high side
childPtsOfTieHigh(refPoints, center, k) ==
    [i \in {j \in DOMAIN refPoints : assignOctantTieHigh(center, refPoints[j]) = k} |-> refPoints[i]]

\* childPts[k] (octree.go 450-451): the points of refPoints in octant k of center
childPtsOf(refPoints, center, k) ==
    [i \in {j \in DOMAIN refPoints : assignOctant(center, refPoints[j]) = k} |-> refPoints[i]]

\* the keys of a leaf (octree.go 435-441) in the order ord the map is iterated in
leafKeys(refPoints, ord) == Join(SelectSeq(ord, LAMBDA i : i \in DOMAIN refPoints))

\* a faulty makeBuilder: the node-index counter starts at 1
makeBuilderFromOne(method, termination, numPts) ==
    [set |-> TRUE, method |-> method, current |-> 0, masterNodeIdx |-> 1,
     terminal_N |-> termination, total |-> numPts, aligned |-> TRUE]

\* makeBuilder (octree.go 416-423): the captured variables of a new closure
makeBuilder(method, termination, numPts) ==
    [set |-> TRUE, method |-> method, current |-> 0, masterNodeIdx |-> 0,
     terminal_N |-> termination, total |-> numPts, aligned |-> TRUE]

RECURSIVE builder(_, _, _)
RECURSIVE createChildren(_, _, _, _, _, _)

\* the call _builder(&childPts[k]) (octree.go 456).  A child that holds every point of
\* its parent is built by the same computation as the parent, so that the recursion
\* never returns: the goroutine's stack overflows.
buildChild(b, refPoints, child, ord) ==
    IF DOMAIN child = DOMAIN refPoints THEN [b EXCEPT !.halt = "StackOverflow"]
    ELSE builder(b, child, ord)

\* a faulty createChildren: the child index is recorded before masterNodeIdx is advanced
createChildrenLinkFirst(b, thisNodeIdx, refPoints, center, ord, k) ==
    IF k = 8 \/ b.halt # "" THEN b
    ELSE createChildren(
            buildChild([b EXCEPT !.closure.masterNodeIdx = @ + 1,
                                 !.octree[thisNodeIdx + 1].CHILDREN[k + 1] = b.closure.masterNodeIdx],
                       refPoints, childPtsOf(refPoints, center, k), ord),
            thisNodeIdx, refPoints, center, ord, k + 1)

\* a faulty createChildren: an octant that receives no point gets no node
createChildrenSkipEmpty(b, thisNodeIdx, refPoints, center, ord, k) ==
    IF k = 8 \/ b.halt # "" THEN b
    ELSE IF DOMAIN childPtsOf(refPoints, center, k) = {}
    THEN createChildren(b, thisNodeIdx, refPoints, center, ord, k + 1)
    ELSE createChildren(
            buildChild([b EXCEPT !.closure.masterNodeIdx = @ + 1,
                                 !.octree[thisNodeIdx + 1].CHILDREN[k + 1] = b.closure.masterNodeIdx + 1],
                       refPoints, childPtsOf(refPoints, center, k), ord),
            thisNodeIdx, refPoints, center, ord, k + 1)

\* the loop that creates the child nodes k..7 of the node thisNodeIdx (octree.go 453-457)
createChildren(b, thisNodeIdx, refPoints, center, ord, k) ==
    IF k = 8 \/ b.halt # "" THEN b
    ELSE createChildren(
            buildChild([b EXCEPT !.closure.masterNodeIdx = @ + 1,
                                 !.octree[thisNodeIdx + 1].CHILDREN[k + 1] = b.closure.masterNodeIdx + 1],
                       refPoints, childPtsOf(refPoints, center, k), ord),
            thisNodeIdx, refPoints, center, ord, k + 1)

\* a parent node (octree.go 446-457), c being what calcCenter returned
builderParent(b, thisNodeIdx, refPoints, ord, c) ==
    IF c.halt # "" THEN [b EXCEPT !.halt = c.halt]
    ELSE createChildren([b EXCEPT !.octree[thisNodeIdx + 1].CENTER = c.center],
                        thisNodeIdx, refPoints, c.center, ord, 0)

\* a faulty builderNode: a node is a leaf only below the threshold (< for <=)
builderNodeStrict(b, thisNodeIdx, refPoints, ord) ==
    IF ~InRange(b.octree, thisNodeIdx) THEN [b EXCEPT !.halt = "Panic"]
    ELSE IF Cardinality(DOMAIN refPoints) < b.closure.terminal_N
    THEN [b EXCEPT !.octree[thisNodeIdx + 1].N = Cardinality(DOMAIN refPoints),
                   !.octree[thisNodeIdx + 1].KEYS = leafKeys(refPoints, ord),
                   !.closure.current = @ + Cardinality(DOMAIN refPoints)]
    ELSE builderParent([b EXCEPT !.octree[thisNodeIdx + 1].N = Cardinality(DOMAIN refPoints)],
                       thisNodeIdx, refPoints, ord, calcCenter(b.closure.method, refPoints))

\* a faulty builderNode: the partition point is computed before the leaf test
builderNodeCenterFirst(b, thisNodeIdx, refPoints, ord) ==
    IF ~InRange(b.octree, thisNodeIdx) THEN [b EXCEPT !.halt = "Panic"]
    ELSE IF calcCenter(b.closure.method, refPoints).halt # ""
    THEN [b EXCEPT !.octree[thisNodeIdx + 1].N = Cardinality(DOMAIN refPoints),
                   !.halt = calcCenter(b.closure.method, refPoints).halt]
    ELSE IF Cardinality(DOMAIN refPoints) <= b.closure.terminal_N
    THEN [b EXCEPT !.octree[thisNodeIdx + 1].N = Cardinality(DOMAIN refPoints),
                   !.octree[thisNodeIdx + 1].KEYS = leafKeys(refPoints, ord),
                   !.closure.current = @ + Cardinality(DOMAIN refPoints)]
    ELSE builderParent([b EXCEPT !.octree[thisNodeIdx + 1].N = Cardinality(DOMAIN refPoints)],
                       thisNodeIdx, refPoints, ord, calcCenter(b.closure.method, refPoints))

\* the builder after its append (octree.go 431-447): an index outside the node list is a
\* run-time panic
builderNode(b, thisNodeIdx, refPoints, ord) ==
    IF ~InRange(b.octree, thisNodeIdx) THEN [b EXCEPT !.halt = "Panic"]
    ELSE IF Cardinality(DOMAIN refPoints) <= b.closure.terminal_N
    THEN [b EXCEPT !.octree[thisNodeIdx + 1].N = Cardinality(DOMAIN refPoints),
                   !.octree[thisNodeIdx + 1].KEYS = leafKeys(refPoints, ord),
                   !.closure.current = @ + Cardinality(DOMAIN refPoints)]
    ELSE builderParent([b EXCEPT !.octree[thisNodeIdx + 1].N = Cardinality(DOMAIN refPoints)],
                       thisNodeIdx, refPoints, ord, calcCenter(b.closure.method, refPoints))

\* one call of the builder on refPoints (octree.go 424-458)
builder(b, refPoints, ord) ==
    IF b.halt # "" THEN b
    ELSE builderNode([b EXCEPT !.octree = Append(@, blankNode),
                               !.closure.aligned = @ /\ b.closure.masterNodeIdx = Len(b.octree)],
                     b.closure.masterNodeIdx, refPoints, ord)

----------------------------------------------------------------------------
(* The exported operations, as functions of the engine state.  Each returns the engine *)
(* state it leaves: octree, stats, builder, and halt, "" when the call returned.       *)

\* the end of Make (octree.go 252-254) after the run b of the builder
makeDone(recorded, b, elapsed) ==
    IF b.halt # ""
    THEN [octree |-> b.octree, stats |-> recorded, builder |-> b.closure, halt |-> b.halt]
    ELSE [octree |-> b.octree,
          stats |-> calcStats(b.octree, [recorded EXCEPT !.TIME = elapsed, !.SIZE = Len(b.octree)]),
          builder |-> b.closure,
          halt |-> ""]

\* a faulty Make: the method name is looked at only when a center is first computed
MakeCallLazy(oct, st, bld, method, terminal_N, refPoints, ord, elapsed) ==
    IF ~(terminal_N > 1)
    THEN [octree |-> oct, stats |-> st, builder |-> bld, halt |-> "InvalidThreshold"]
    ELSE IF Cardinality(DOMAIN refPoints) = 0
    THEN [octree |-> oct, stats |-> st, builder |-> bld, halt |-> "EmptyInput"]
    ELSE IF method \notin Methods /\ Cardinality(DOMAIN refPoints) > terminal_N
    THEN [octree |-> oct, stats |-> st, builder |-> bld, halt |-> "InvalidMethod"]
    ELSE makeDone([st EXCEPT !.HOW = method, !.STOP = terminal_N],
                  builder([octree |-> <<>>,
                           closure |-> makeBuilder(method, terminal_N, Cardinality(DOMAIN refPoints)),
                           halt |-> ""],
                          refPoints, ord),
                  elapsed)

\* a faulty Make: the node list of the earlier tree is not cleared
MakeCallKeep(oct, st, bld, method, terminal_N, refPoints, ord, elapsed) ==
    IF ~(terminal_N > 1)
    THEN [octree |-> oct, stats |-> st, builder |-> bld, halt |-> "InvalidThreshold"]
    ELSE IF Cardinality(DOMAIN refPoints) = 0
    THEN [octree |-> oct, stats |-> st, builder |-> bld, halt |-> "EmptyInput"]
    ELSE IF method \notin Methods
    THEN [octree |-> oct, stats |-> st, builder |-> bld, halt |-> "InvalidMethod"]
    ELSE makeDone([st EXCEPT !.HOW = method, !.STOP = terminal_N],
                  builder([octree |-> oct,
                           closure |-> makeBuilder(method, terminal_N, Cardinality(DOMAIN refPoints)),
                           halt |-> ""],
                          refPoints, ord),
                  elapsed)

\* a faulty Make: a threshold of 1 is accepted (>= for >)
MakeCallFromOne(oct, st, bld, method, terminal_N, refPoints, ord, elapsed) ==
    IF ~(terminal_N >= 1)
    THEN [octree |-> oct, stats |-> st, builder |-> bld, halt |-> "InvalidThreshold"]
    ELSE IF Cardinality(DOMAIN refPoints) = 0
    THEN [octree |-> oct, stats |-> st, builder |-> bld, halt |-> "EmptyInput"]
    ELSE IF method \notin Methods
    THEN [octree |-> oct, stats |-> st, builder |-> bld, halt |-> "InvalidMethod"]
    ELSE makeDone([st EXCEPT !.HOW = method, !.STOP = terminal_N],
                  builder([octree |-> <<>>,
                           closure |-> makeBuilder(method, terminal_N, Cardinality(DOMAIN refPoints)),
                           halt |-> ""],
                          refPoints, ord),
                  elapsed)

\* a faulty Make: the method and threshold are recorded and the node list is cleared
\* before the data set is tested for emptiness
MakeCallClearFirst(oct, st, bld, method, terminal_N, refPoints, ord, elapsed) ==
    IF ~(terminal_N > 1)
    THEN [octree |-> oct, stats |-> st, builder |-> bld, halt |-> "InvalidThreshold"]
    ELSE IF method \notin Methods
    THEN [octree |-> oct, stats |-> st, builder |-> bld, halt |-> "InvalidMethod"]
    ELSE IF Cardinality(DOMAIN refPoints) = 0
    THEN [octree |-> <<>>, stats |-> [st EXCEPT !.HOW = method, !.STOP = terminal_N],
          builder |-> bld, halt |-> "EmptyInput"]
    ELSE makeDone([st EXCEPT !.HOW = method, !.STOP = terminal_N],
                  builder([octree |-> <<>>,
                           closure |-> makeBuilder(method, terminal_N, Cardinality(DOMAIN refPoints)),
                           halt |-> ""],
                          refPoints, ord),
                  elapsed)

\* Make (octree.go 225-255): elapsed is the time the build took
MakeCall(oct, st, bld, method, terminal_N, refPoints, ord, elapsed) ==
    IF ~(terminal_N > 1)
    THEN [octree |-> oct, stats |-> st, builder |-> bld, halt |-> "InvalidThreshold"]
    ELSE IF Cardinality(DOMAIN refPoints) = 0
    THEN [octree |-> oct, stats |-> st, builder |-> bld, halt |-> "EmptyInput"]
    ELSE IF method \notin Methods
    THEN [octree |-> oct, stats |-> st, builder |-> bld, halt |-> "InvalidMethod"]
    ELSE makeDone([st EXCEPT !.HOW = method, !.STOP = terminal_N],
                  builder([octree |-> <<>>,
                           closure |-> makeBuilder(method, terminal_N, Cardinality(DOMAIN refPoints)),
                           halt |-> ""],
                          refPoints, ord),
                  elapsed)

\* the descent of Query (octree.go 269-272) from node nodeIdx: the node indices visited.
\* It stops at a leaf, at an index outside the node list, or after more steps than
\* there are nodes, when a node repeats and the loop of the code never ends.
RECURSIVE Descent(_, _, _, _, _)

\* a faulty Descent: a node that holds exactly STOP points is taken for a parent (>= for >)
DescentFullLeaf(oct, STOP, refQueryPt, nodeIdx, steps) ==
    IF ~InRange(oct, nodeIdx) \/ steps > Len(oct) THEN <<nodeIdx>>
    ELSE IF At(oct, nodeIdx).N >= STOP
    THEN <<nodeIdx>> \o Descent(oct, STOP, refQueryPt,
                                At(oct, nodeIdx).CHILDREN[assignOctant(At(oct, nodeIdx).CENTER, refQueryPt) + 1],
                                steps + 1)
    ELSE <<nodeIdx>>

Descent(oct, STOP, refQueryPt, nodeIdx, steps) ==
    IF ~InRange(oct, nodeIdx) \/ steps > Len(oct) THEN <<nodeIdx>>
    ELSE IF At(oct, nodeIdx).N > STOP
    THEN <<nodeIdx>> \o Descent(oct, STOP, refQueryPt,
                                At(oct, nodeIdx).CHILDREN[assignOctant(At(oct, nodeIdx).CENTER, refQueryPt) + 1],
                                steps + 1)
    ELSE <<nodeIdx>>

\* the result of Query at the end nodeIdx of its descent path (octree.go 270-273)
queryEnd(oct, st, path, nodeIdx) ==
    IF ~InRange(oct, nodeIdx) THEN [halt |-> "Panic", ret |-> <<>>, path |-> path]
    ELSE IF At(oct, nodeIdx).N > st.STOP THEN [halt |-> "Hang", ret |-> <<>>, path |-> path]
    ELSE [halt |-> "", ret |-> At(oct, nodeIdx).KEYS, path |-> path]

queryPath(oct, st, path) == queryEnd(oct, st, path, path[Len(path)])

\* Query (octree.go 256-274): ret is the string returned
QueryCall(oct, st, refQueryPt) ==
    IF st.SIZE = 0 THEN [halt |-> "EmptyTree", ret |-> <<>>, path |-> <<>>]
    ELSE queryPath(oct, st, Descent(oct, st.STOP, refQueryPt, 0, 0))

----------------------------------------------------------------------------
(* The JSON exchange record (octree.go 328-341).  A JSON text is modelled by the    *)
(* jsonOctree value it denotes; a pointer field is a sequence of length 0 (nil, the *)
(* field is omitted) or 1 (the value pointed to).                                   *)

IsCont(b) == b >= 128 /\ b <= 191

\* the length of the UTF-8 encoding that starts s, or 0 when s starts with an invalid byte
RuneLen(s) ==
    IF s[1] < 128 THEN 1
    ELSE IF s[1] >= 194 /\ s[1] <= 223 /\ Len(s) >= 2 /\ IsCont(s[2]) THEN 2
    ELSE IF s[1] >= 224 /\ s[1] <= 239 /\ Len(s) >= 3 /\ IsCont(s[2]) /\ IsCont(s[3])
            /\ (s[1] = 224 => s[2] >= 160) /\ (s[1] = 237 => s[2] <= 159) THEN 3
    ELSE IF s[1] >= 240 /\ s[1] <= 244 /\ Len(s) >= 4 /\ IsCont(s[2]) /\ IsCont(s[3]) /\ IsCont(s[4])
            /\ (s[1] = 240 => s[2] >= 144) /\ (s[1] = 244 => s[2] <= 143) THEN 4
    ELSE 0

\* the string json.Marshal writes and json.Unmarshal reads back for the Go string s:
\* every byte that starts no valid UTF-8 encoding becomes U+FFFD (bytes EF BF BD)
RECURSIVE JSONString(_)
JSONString(s) ==
    IF s = <<>> THEN <<>>
    ELSE IF RuneLen(s) = 0 THEN <<239, 191, 189>> \o JSONString(Tail(s))
    ELSE SubSeq(s, 1, RuneLen(s)) \o JSONString(SubSeq(s, RuneLen(s) + 1, Len(s)))

\* nodeData[k] of Export (octree.go 86-97) as json.Marshal renders it
jsonNodeOf(k, v, STOP) ==
    IF v.N > STOP
    THEN [id |-> k, N |-> v.N, center |-> <<v.CENTER>>, children |-> <<v.CHILDREN>>, keys |-> <<>>]
    ELSE [id |-> k, N |-> v.N, center |-> <<>>, children |-> <<>>, keys |-> JSONString(v.KEYS)]

\* the zero jsonNode, as rendered
blankJsonNode == [id |-> 0, N |-> 0, center |-> <<>>, children |-> <<>>, keys |-> <<>>]

\* a faulty Export: the file name is checked before the tree
ExportCallNameFirst(oct, st, fileName) ==
    IF fileName = "" THEN [halt |-> "NoFileName", text |-> <<>>]
    ELSE IF st.SIZE = 0 THEN [halt |-> "EmptyTree", text |-> <<>>]
    ELSE IF Len(oct) > st.SIZE THEN [halt |-> "Panic", text |-> <<>>]
    ELSE [halt |-> "",
          text |-> <<[method |-> st.HOW, terminal_N |-> st.STOP, time |-> st.TIME, nodes |-> st.SIZE,
                      octree |-> [i \in 1..st.SIZE |->
                                     IF i <= Len(oct) THEN jsonNodeOf(i - 1, oct[i], st.STOP)
                                     ELSE blankJsonNode]]>>]

\* Export (octree.go 64-112): text is the JSON written, a sequence of 0 or 1 records
ExportCall(oct, st, fileName) ==
    IF st.SIZE = 0 THEN [halt |-> "EmptyTree", text |-> <<>>]
    ELSE IF fileName = "" THEN [halt |-> "NoFileName", text |-> <<>>]
    ELSE IF Len(oct) > st.SIZE THEN [halt |-> "Panic", text |-> <<>>]
    ELSE [halt |-> "",
          text |-> <<[method |-> st.HOW, terminal_N |-> st.STOP, time |-> st.TIME, nodes |-> st.SIZE,
                      octree |-> [i \in 1..st.SIZE |->
                                     IF i <= Len(oct) THEN jsonNodeOf(i - 1, oct[i], st.STOP)
                                     ELSE blankJsonNode]]>>]

\* the loop of Import over the node records k.. of the file (octree.go 215-222): an index
\* outside the node list and the use of a nil pointer are run-time panics
RECURSIVE importNodes(_, _, _, _)
importNodes(oct, records, STOP, k) ==
    IF k = Len(records) THEN [octree |-> oct, halt |-> ""]
    ELSE IF ~InRange(oct, k) THEN [octree |-> oct, halt |-> "Panic"]
    ELSE IF At(records, k).N > STOP
    THEN IF At(records, k).center = <<>> \/ At(records, k).children = <<>>
         THEN [octree |-> [oct EXCEPT ![k + 1].N = At(records, k).N], halt |-> "Panic"]
         ELSE importNodes([oct EXCEPT ![k + 1].N = At(records, k).N,
                                      ![k + 1].CENTER = At(records, k).center[1],
                                      ![k + 1].CHILDREN = At(records, k).children[1]],
                          records, STOP, k + 1)
    ELSE importNodes([oct EXCEPT ![k + 1].N = At(records, k).N,
                                 ![k + 1].KEYS = At(records, k).keys],
                     records, STOP, k + 1)

\* the end of Import (octree.go 223): calcStats reads _octree[0]
importDone(recorded, bld, loaded) ==
    IF loaded.halt # ""
    THEN [octree |-> loaded.octree, stats |-> recorded, builder |-> bld, halt |-> loaded.halt]
    ELSE IF Len(loaded.octree) = 0
    THEN [octree |-> loaded.octree, stats |-> [recorded EXCEPT !.LEAFCOUNTS = <<>>],
          builder |-> bld, halt |-> "Panic"]
    ELSE [octree |-> loaded.octree, stats |-> calcStats(loaded.octree, recorded),
          builder |-> bld, halt |-> ""]

\* Import (octree.go 210-223) of the decoded record jsonIn
importRecord(oct, bld, recorded, jsonIn) ==
    IF jsonIn.nodes < 0
    THEN [octree |-> oct, stats |-> recorded, builder |-> bld, halt |-> "Panic"]
    ELSE importDone(recorded, bld,
                    importNodes([i \in 1..jsonIn.nodes |-> blankNode], jsonIn.octree,
                                jsonIn.terminal_N, 0))

\* Import (octree.go 188-224) of a file holding text, a sequence of 0 or 1 records
ImportCall(oct, st, bld, text) ==
    IF text = <<>>
    THEN [octree |-> oct, stats |-> st, builder |-> bld, halt |-> "NoFile"]
    ELSE importRecord(oct, bld,
                      [st EXCEPT !.HOW = text[1].method, !.SIZE = text[1].nodes,
                                 !.STOP = text[1].terminal_N, !.TIME = text[1].time],
                      text[1])

\* Summarize (octree.go 275-322) reads _stats only: the halt, "" when it returns
SummarizeCall(st, nOutputs) ==
    IF st.SIZE = 0 THEN "EmptyTree" ELSE IF nOutputs > 1 THEN "TooManyArguments" ELSE ""

\* Histogram (octree.go 113-187) reads _stats only: the halt, "" when it returns
HistogramCall(st, plotWidth, plotHeight, pngFile) ==
    IF st.SIZE = 0 THEN "EmptyTree"
    ELSE IF plotWidth = 0 \/ plotHeight = 0 \/ pngFile = "" THEN "BadArgument"
    ELSE ""

----------------------------------------------------------------------------
(* The inputs of the calls *)

\* the data sets a caller may hold, coordinates in units; the identifiers are "a", "b",
\* "c" and the one-byte string "\xff", which is not valid UTF-8:
\* none; one point; three points of which two are close; three coincident points;
\* four points of which two coincide and one is far; the corners of a square;
\* three distinct points that each have the largest value on two axes;
\* "A" at the origin and "B" at (1, 1, 1)
PointSets ==
    {<<>>,
     (<<97>> :> <<0, 0, 0>>),
     (<<97>> :> <<0, 0, 0>>) @@ (<<98>> :> <<12, 0, 0>>) @@ (<<255>> :> <<120, 120, 120>>),
     (<<97>> :> <<0, 0, 0>>) @@ (<<98>> :> <<0, 0, 0>>) @@ (<<99>> :> <<0, 0, 0>>),
     (<<97>> :> <<0, 0, 0>>) @@ (<<98>> :> <<0, 0, 0>>) @@ (<<99>> :> <<12, 0, 0>>)
        @@ (<<255>> :> <<120, 120, 120>>),
     (<<97>> :> <<0, 0, 0>>) @@ (<<98>> :> <<24, 0, 0>>) @@ (<<99>> :> <<0, 24, 0>>)
        @@ (<<255>> :> <<24, 24, 0>>),
     (<<97>> :> <<0, 12, 12>>) @@ (<<98>> :> <<12, 0, 12>>) @@ (<<99>> :> <<12, 12, 0>>),
     (<<65>> :> <<0, 0, 0>>) @@ (<<66>> :> <<12, 12, 12>>)}

\* the orders explored in which a range loop visits the keys S of a map: ascending and
\* descending
RECURSIVE Ascending(_)
Ascending(S) ==
    IF S = {} THEN <<>>
    ELSE LET x == CHOOSE y \in S : \A z \in S : y[1] <= z[1] IN <<x>> \o Ascending(S \ {x})

Reverse(s) == [i \in 1..Len(s) |-> s[Len(s) + 1 - i]]

KeyOrders(S) == {Ascending(S), Reverse(Ascending(S))}

\* the query points: the data coordinates, and points outside their bounding box
QueryPts == {<<0, 0, 0>>, <<12, 0, 0>>, <<120, 120, 120>>, <<-12, 240, 6>>, <<12, 12, 0>>}

\* the times a build may take
Durations == {7}

\* JSON files found on disk that no Export of this run wrote
ForeignFiles ==
    {\* a single leaf
     [method |-> "Centroid", terminal_N |-> 2, time |-> 5, nodes |-> 1,
      octree |-> <<[id |-> 0, N |-> 1, center |-> <<>>, children |-> <<>>, keys |-> <<98>>]>>],
     \* "nodes" larger than the number of node records
     [method |-> "Centroid", terminal_N |-> 2, time |-> 5, nodes |-> 3,
      octree |-> <<[id |-> 0, N |-> 1, center |-> <<>>, children |-> <<>>, keys |-> <<98>>]>>],
     \* "nodes" smaller than the number of node records
     [method |-> "Centroid", terminal_N |-> 2, time |-> 5, nodes |-> 1,
      octree |-> <<[id |-> 0, N |-> 1, center |-> <<>>, children |-> <<>>, keys |-> <<98>>],
                   [id |-> 1, N |-> 0, center |-> <<>>, children |-> <<>>, keys |-> <<>>]>>],
     \* a parent without "center" and "children"
     [method |-> "Centroid", terminal_N |-> 2, time |-> 5, nodes |-> 2,
      octree |-> <<[id |-> 0, N |-> 3, center |-> <<>>, children |-> <<>>, keys |-> <<>>],
                   [id |-> 1, N |-> 0, center |-> <<>>, children |-> <<>>, keys |-> <<>>]>>]}

----------------------------------------------------------------------------------------------------------------------------------------
(* The state machine: a caller that holds the data set points makes up to MaxCalls  *)
(* calls.  A call that halts ends the process: no call follows it.                  *)

Init ==
    /\ _octree = <<>>
    /\ _stats = blankStats
    /\ _builder = blankBuilder
    /\ file = <<>>
    /\ halted = ""
    /\ last = [op |-> "", arg |-> <<>>, ret |-> <<>>, path |-> <<>>]
    /\ calls = 0
    /\ origin = [op |-> "", arg |-> <<>>, n |-> 0]
    /\ points \in PointSets

Running == halted = "" /\ calls < MaxCalls

\* the engine state a Make or Import call leaves, r being what the call computed
Install(r, op, arg) ==
    /\ _octree' = r.octree
    /\ _stats' = r.stats
    /\ _builder' = r.builder
    /\ halted' = r.halt
    /\ last' = [op |-> op, arg |-> arg, ret |-> <<>>, path |-> <<>>]
    /\ origin' = IF r.halt = "" THEN [op |-> op, arg |-> arg, n |-> origin.n + 1] ELSE origin

Make ==
    /\ Running
    /\ \E method \in Methods \cup {"bogus"}, terminal_N \in 0..MaxT, ord \in KeyOrders(DOMAIN points),
          elapsed \in Durations :
          Install(MakeCall(_octree, _stats, _builder, method, terminal_N, points, ord, elapsed),
                  "Make", <<method, terminal_N, ord, elapsed>>)
    /\ calls' = calls + 1
    /\ UNCHANGED <<file, points>>

\* what a Query call leaves, r being what the call computed
Answer(r, refQueryPt) ==
    /\ halted' = r.halt
    /\ last' = [op |-> "Query", arg |-> <<refQueryPt>>, ret |-> r.ret, path |-> r.path]

Query ==
    /\ Running
    /\ \E refQueryPt \in QueryPts : Answer(QueryCall(_octree, _stats, refQueryPt), refQueryPt)
    /\ calls' = calls + 1
    /\ UNCHANGED <<_octree, _stats, _builder, file, origin, points>>

\* what an Export call leaves, r being what the call computed
Written(r, fileName) ==
    /\ halted' = r.halt
    /\ file' = IF r.halt = "" THEN r.text ELSE file
    /\ last' = [op |-> "Export", arg |-> <<fileName>>, ret |-> <<>>, path |-> <<>>]

Export ==
    /\ Running
    /\ \E fileName \in {"", "demo.json"} : Written(ExportCall(_octree, _stats, fileName), fileName)
    /\ calls' = calls + 1
    /\ UNCHANGED <<_octree, _stats, _builder, origin, points>>

Import ==
    /\ Running
    /\ \E text \in {file} \cup {<<f>> : f \in ForeignFiles} :
          Install(ImportCall(_octree, _stats, _builder, text), "Import", text)
    /\ calls' = calls + 1
    /\ UNCHANGED <<file, points>>

Summarize ==
    /\ Running
    /\ \E nOutputs \in 0..2 :
          /\ halted' = SummarizeCall(_stats, nOutputs)
          /\ last' = [op |-> "Summarize", arg |-> <<nOutputs>>, ret |-> <<>>, path |-> <<>>]
    /\ calls' = calls + 1
    /\ UNCHANGED <<_octree, _stats, _builder, file, origin, points>>

\* a faulty Histogram: the leaf counts are sorted in place before they are written
HistogramSorting ==
    /\ Running
    /\ \E plotWidth \in {0, 500} :
          /\ halted' = HistogramCall(_stats, plotWidth, 500, "demo.png")
          /\ last' = [op |-> "Histogram", arg |-> <<plotWidth>>, ret |-> <<>>, path |-> <<>>]
    /\ calls' = calls + 1
    /\ _stats' = [_stats EXCEPT !.LEAFCOUNTS = SortedValues(DOMAIN @, @)]
    /\ UNCHANGED <<_octree, _builder, file, origin, points>>

Histogram ==
    /\ Running
    /\ \E plotWidth \in {0, 500} :
          /\ halted' = HistogramCall(_stats, plotWidth, 500, "demo.png")
          /\ last' = [op |-> "Histogram", arg |-> <<plotWidth>>, ret |-> <<>>, path |-> <<>>]
    /\ calls' = calls + 1
    /\ UNCHANGED <<_octree, _stats, _builder, file, origin, points>>

Next == Make \/ Query \/ Export \/ Import \/ Summarize \/ Histogram

Spec == Init /\ [][Next]_vars

----------------------------------------------------------------------------
(* assignOctant on its own: a caller applies it to centers and points of a grid *)

Grid == {<<x, y, z>> : x \in {0, 12, 24}, y \in {0, 12, 24}, z \in {0, 12, 24}}

InitOctant == Init /\ points = <<>>

AssignOctant ==
    /\ \E refCenter \in Grid, refPoint \in Grid :
          last' = [op |-> "assignOctant", arg |-> <<refCenter, refPoint>>,
                   ret |-> assignOctant(refCenter, refPoint), path |-> <<>>]
    /\ UNCHANGED <<_octree, _stats, _builder, file, halted, calls, origin, points>>

NextOctant == AssignOctant

SpecOctant == InitOctant /\ [][NextOctant]_vars

----------------------------------------------------------------------------
(* The "XYZ Medians" center calculator on its own: a caller applies it once, to a   *)
(* data set of 1 to 4 points                                                        *)

MedianCoords ==
    {<<0, 0, 24>>, <<12, 0, 0>>, <<36, 12, 12>>, <<0, 36, 12>>, <<12, 12, 36>>, <<24, 24, 24>>}

MedianSets ==
    UNION {[S -> MedianCoords] :
              S \in {{<<97>>}, {<<97>>, <<98>>}, {<<97>>, <<98>>, <<99>>},
                     {<<97>>, <<98>>, <<99>>, <<255>>}}}

InitMedians == Init /\ points = <<>>

ApplyMedians ==
    /\ last.op = ""
    /\ \E refPoints \in MedianSets :
          last' = [op |-> "XYZ Medians", arg |-> <<refPoints>>,
                   ret |-> calcCenter("XYZ Medians", refPoints).center, path |-> <<>>]
    /\ UNCHANGED <<_octree, _stats, _builder, file, halted, calls, origin, points>>

NextMedians == ApplyMedians

SpecMedians == InitMedians /\ [][NextMedians]_vars

----------------------------------------------------------------------------
(* The "Geometric Median" center calculator on its own: a caller applies it once, *)
(* to a data set of 3 or 4 points (the builder computes a center for more points  *)
(* than the threshold, which is 2 or more)                                        *)

GeometricSets == {refPoints \in MedianSets : Cardinality(DOMAIN refPoints) > 2}

InitGeometric == Init /\ points = <<>>

ApplyGeometric ==
    /\ last.op = ""
    /\ \E refPoints \in GeometricSets :
          last' = [op |-> "Geometric Median", arg |-> <<refPoints>>,
                   ret |-> calcCenter("Geometric Median", refPoints), path |-> <<>>]
    /\ UNCHANGED <<_octree, _stats, _builder, file, halted, calls, origin, points>>

NextGeometric == ApplyGeometric

SpecGeometric == InitGeometric /\ [][NextGeometric]_vars

----------------------------------------------------------------------------
(* Properties *)

\* the engine holds the tree of a Make that returned, and the process runs
MadeTree == origin.op = "Make" /\ halted = ""

\* C1: after a Make that returned, for every identifier k of the data set, Query at
\* the coordinates points[k] returns, and the KEYS it returns, split at the commas,
\* list k.
C1_SelfMembership ==
    MadeTree =>
        \A k \in DOMAIN points :
            /\ QueryCall(_octree, _stats, points[k]).halt = ""
            /\ k \in Range(Split(QueryCall(_octree, _stats, points[k]).ret))

\* a tree with parents, built from points of which one lies on the center of the root
C1_Witness ==
    /\ MadeTree
    /\ Len(_octree) > 1
    /\ \E k \in DOMAIN points : \E a \in 1..3 : points[k][a] = At(_octree, 0).CENTER[a]

\* the indices of the nodes of the tree that hold no more points than the threshold
LeafIdx == {i \in 0..(Len(_octree) - 1) : At(_octree, i).N <= _stats.STOP}

\* C2: after a Make that returned, the threshold is above 1, every node without
\* children holds at most threshold points, and the N of the nodes with N <= threshold
\* add up to the size of the data set, which is the N of the root.
C2_LeafCounts ==
    MadeTree =>
        /\ _stats.STOP > 1
        /\ \A i \in 0..(Len(_octree) - 1) :
              At(_octree, i).CHILDREN = blankNode.CHILDREN => At(_octree, i).N <= _stats.STOP
        /\ SumOver(LeafIdx, [i \in LeafIdx |-> At(_octree, i).N]) = Cardinality(DOMAIN points)
        /\ At(_octree, 0).N = Cardinality(DOMAIN points)

\* a tree with parents on two levels and a leaf that is full
C2_Witness ==
    /\ MadeTree
    /\ Len(_octree) > 9
    /\ \E i \in LeafIdx : At(_octree, i).N = _stats.STOP

\* C3: Import of the file that Export has just written from the tree of a Make returns
\* and leaves the node list and the statistics, with method, threshold and node count,
\* as they were.
C3_ExportImportSameState ==
    [][(/\ MadeTree
        /\ last.op = "Export"
        /\ last'.op = "Import"
        /\ last'.arg = file)
       => (halted' = "" /\ _octree' = _octree /\ _stats' = _stats)]_vars

Bit(n, k) == (n \div (2 ^ k)) % 2

\* C4: assignOctant returns a number of 0..7 whose bit k is 1 exactly when the
\* point's coordinate k is above the center's, k = 0 for x, 1 for y, 2 for z; for a
\* point equal to the center it returns 0.
C4_OctantBits ==
    last.op = "assignOctant" =>
        /\ last.ret \in 0..7
        /\ \A k \in 0..2 : Bit(last.ret, k) = 1 <=> last.arg[2][k + 1] > last.arg[1][k + 1]
        /\ (last.arg[2] = last.arg[1] => last.ret = 0)

\* a point that is above the center on y only and equal to it on x
C4_Witness ==
    /\ last.op = "assignOctant"
    /\ last.arg[2][1] = last.arg[1][1]
    /\ last.arg[2][2] > last.arg[1][2]
    /\ last.arg[2][3] < last.arg[1][3]
    /\ last.ret = 2

\* C5: a Make call with a threshold of at most 1 halts with InvalidThreshold; else
\* with an empty data set it halts with EmptyInput; else with a method name other than
\* the four it halts with InvalidMethod; and a call that halts so leaves the node list,
\* the statistics and the builder closure as they were: no node was appended.
C5_MakeValidatesFirst ==
    [][(last'.op = "Make" /\ calls' = calls + 1)
       => /\ (last'.arg[2] <= 1 => halted' = "InvalidThreshold")
          /\ (last'.arg[2] > 1 /\ DOMAIN points = {} => halted' = "EmptyInput")
          /\ (/\ last'.arg[2] > 1
              /\ DOMAIN points # {}
              /\ last'.arg[1] \notin {"Centroid", "DataMidPoint", "Geometric Median", "XYZ Medians"}
              => halted' = "InvalidMethod")
          /\ (halted' \in {"InvalidThreshold", "EmptyInput", "InvalidMethod"}
              => _octree' = _octree /\ _stats' = _stats /\ _builder' = _builder)]_vars

\* a Make with an unknown method name called while the engine holds a tree with parents
C5_Witness ==
    /\ last.op = "Make"
    /\ halted = "InvalidMethod"
    /\ last.arg[2] > 1
    /\ origin.n = 1
    /\ Len(_octree) > 1

\* C6: a Query, Summarize, Histogram or Export call made when no Make or Import has
\* returned halts with EmptyTree, returns nothing and writes no file.
C6_EmptyTree ==
    (last.op \in {"Query", "Summarize", "Histogram", "Export"} /\ origin.n = 0)
        => (halted = "EmptyTree" /\ last.ret = <<>> /\ file = <<>>)

\* an Export without a file name as the first call
C6_Witness ==
    /\ last.op = "Export"
    /\ last.arg = <<"">>
    /\ origin.n = 0
    /\ halted = "EmptyTree"

\* what the last Make or Import that returned produces from the initial engine state
Afresh ==
    IF origin.op = "Make"
    THEN MakeCall(<<>>, blankStats, blankBuilder, origin.arg[1], origin.arg[2], points,
                  origin.arg[3], origin.arg[4])
    ELSE ImportCall(<<>>, blankStats, blankBuilder, origin.arg)

\* C7: while the process runs after one or more Make and Import calls that returned,
\* the node list and the statistics (with method, threshold and node count) are those
\* the last of these calls produces from the initial state, the node count recorded is
\* the length of the node list, and after a Make the closure's node-index counter is
\* the one that call alone leaves.
C7_LastCallAlone ==
    (origin.n >= 1 /\ halted = "") =>
        /\ _octree = Afresh.octree
        /\ _stats = Afresh.stats
        /\ _stats.SIZE = Len(_octree)
        /\ (origin.op = "Make" => _builder = Afresh.builder)

\* a second Make that returned
C7_Witness ==
    /\ origin.n = 2
    /\ origin.op = "Make"
    /\ last.op = "Make"
    /\ halted = ""

\* C8: in the tree of a Make that returned, node 0 holds all the points and is no
\* node's child, every other node is a child of a parent, and every CHILDREN entry of a
\* parent is an index of the node list above the parent's own.
C8_ChildIndices ==
    MadeTree =>
        /\ Len(_octree) >= 1
        /\ At(_octree, 0).N = Cardinality(DOMAIN points)
        /\ \A i \in 0..(Len(_octree) - 1) :
              At(_octree, i).N > _stats.STOP =>
                  \A k \in 1..8 : /\ At(_octree, i).CHILDREN[k] > i
                                  /\ At(_octree, i).CHILDREN[k] < Len(_octree)
        /\ \A j \in 1..(Len(_octree) - 1) :
              \E i \in 0..(j - 1) : /\ At(_octree, i).N > _stats.STOP
                                    /\ j \in Range(At(_octree, i).CHILDREN)

\* a tree in which a parent other than the root has children
C8_Witness ==
    /\ MadeTree
    /\ \E i \in 1..(Len(_octree) - 1) : At(_octree, i).N > _stats.STOP

\* C9: a Query on the tree of a Make returns: its descent starts at node 0, visits
\* indices of the node list in strictly increasing order, and ends at a node with
\* N <= threshold, whose KEYS are the value returned.
C9_QueryDescends ==
    (last.op = "Query" /\ origin.op = "Make") =>
        /\ halted = ""
        /\ Len(last.path) >= 1
        /\ last.path[1] = 0
        /\ \A i \in 1..Len(last.path) : InRange(_octree, last.path[i])
        /\ \A i \in 1..(Len(last.path) - 1) : last.path[i] < last.path[i + 1]
        /\ At(_octree, last.path[Len(last.path)]).N <= _stats.STOP
        /\ last.ret = At(_octree, last.path[Len(last.path)]).KEYS

\* a Query at a point outside the bounding box of the data that descends from the root
C9_Witness ==
    /\ last.op = "Query"
    /\ origin.op = "Make"
    /\ last.arg = << <<-12, 240, 6>> >>
    /\ Len(last.path) >= 2
    /\ halted = ""

\* the record text[1] is structurally invalid: "nodes" is not the number of node
\* records, or a node with N above the threshold lacks "center" or "children"
StructurallyInvalid(text) ==
    /\ text # <<>>
    /\ \/ text[1].nodes # Len(text[1].octree)
       \/ \E i \in 1..Len(text[1].octree) :
             /\ text[1].octree[i].N > text[1].terminal_N
             /\ (text[1].octree[i].center = <<>> \/ text[1].octree[i].children = <<>>)

\* C10: an Import of a structurally invalid record halts with CorruptData and leaves
\* the node list and the statistics as they were.
C10_ImportRejectsCorrupt ==
    [][(last'.op = "Import" /\ calls' = calls + 1 /\ StructurallyInvalid(last'.arg))
       => (halted' = "CorruptData" /\ _octree' = _octree /\ _stats' = _stats)]_vars

\* C11: a Make call on a non-empty data set with a threshold above 1 ends: it returns,
\* or it halts with one of the defined errors; the builder never recurses without end.
C11_MakeTerminates ==
    (last.op = "Make" /\ last.arg[2] > 1 /\ DOMAIN points # {})
        => halted \in {"", "InvalidMethod", "MaxIterationsExceeded", "NumericalDegeneracy"}

\* the data set of the scenario: "A" at the origin and "B" at (1, 1, 1)
ScenarioAB == (<<65>> :> <<0, 0, 0>>) @@ (<<66>> :> <<12, 12, 12>>)

\* a Make call with method "XYZ Medians" on the data set of the scenario
ScenarioMake(t) ==
    /\ last.op = "Make"
    /\ last.arg[1] = "XYZ Medians"
    /\ last.arg[2] = t
    /\ points = ScenarioAB

\* C12 as stated: Make("XYZ Medians", 1, {A, B}) returns with a tree of 9 nodes whose
\* root is a parent with center (0.5, 0.5, 0.5), after which Query at (1, 1, 1) returns
\* "B" and Query at (0, 0, 0) returns "A", from two distinct leaves.
C12_ScenarioAsStated ==
    ScenarioMake(1) =>
        /\ halted = ""
        /\ Len(_octree) = 9
        /\ At(_octree, 0).N > _stats.STOP
        /\ At(_octree, 0).CENTER = <<6, 6, 6>>
        /\ QueryCall(_octree, _stats, <<12, 12, 12>>).ret = <<66>>
        /\ QueryCall(_octree, _stats, <<0, 0, 0>>).ret = <<65>>
        /\ QueryCall(_octree, _stats, <<12, 12, 12>>).path # QueryCall(_octree, _stats, <<0, 0, 0>>).path

\* C12 amended: Make("XYZ Medians", 1, {A, B}) halts with InvalidThreshold and leaves the
\* engine as it was; with the threshold 2 it returns with a single node, a leaf with
\* N = 2, and Query at (1, 1, 1) and at (0, 0, 0) both return the two identifiers.
C12_ScenarioThreshold ==
    [][(last'.op = "Make" /\ calls' = calls + 1 /\ last'.arg[1] = "XYZ Medians" /\ points = ScenarioAB)
       => /\ (last'.arg[2] = 1
              => /\ halted' = "InvalidThreshold"
                 /\ _octree' = _octree /\ _stats' = _stats /\ _builder' = _builder)
          /\ (last'.arg[2] = 2
              => /\ halted' = ""
                 /\ Len(_octree') = 1
                 /\ At(_octree', 0).N = 2
                 /\ QueryCall(_octree', _stats', <<12, 12, 12>>).ret \in {<<65, 44, 66>>, <<66, 44, 65>>}
                 /\ QueryCall(_octree', _stats', <<0, 0, 0>>).ret
                       = QueryCall(_octree', _stats', <<12, 12, 12>>).ret)]_vars

\* the Make of the scenario, with threshold 1, as the first call
C12_Witness ==
    /\ ScenarioMake(1)
    /\ calls = 1
    /\ halted = "InvalidThreshold"
    /\ _octree = <<>>

\* C13: a Make call with one of the four methods and a threshold above 1 that is at
\* least the size of the non-empty data set returns with a node list of one node: a
\* leaf whose N is the size of the data set and whose KEYS list exactly its
\* identifiers, with CENTER and CHILDREN left at zero (no center was computed).
C13_SingleNode ==
    (/\ last.op = "Make"
     /\ last.arg[1] \in {"Centroid", "DataMidPoint", "Geometric Median", "XYZ Medians"}
     /\ last.arg[2] > 1
     /\ DOMAIN points # {}
     /\ last.arg[2] >= Cardinality(DOMAIN points))
        => /\ halted = ""
           /\ Len(_octree) = 1
           /\ At(_octree, 0).N = Cardinality(DOMAIN points)
           /\ Range(Split(At(_octree, 0).KEYS)) = DOMAIN points
           /\ Len(Split(At(_octree, 0).KEYS)) = Cardinality(DOMAIN points)
           /\ At(_octree, 0).CENTER = <<0, 0, 0>>
           /\ At(_octree, 0).CHILDREN = <<0, 0, 0, 0, 0, 0, 0, 0>>

\* a Make by geometric median with threshold 3 on three coincident points, for which
\* the computation of a center would halt
C13_Witness ==
    /\ last.op = "Make"
    /\ last.arg[1] = "Geometric Median"
    /\ last.arg[2] = 3
    /\ Cardinality(DOMAIN points) = 3
    /\ \A j, k \in DOMAIN points : points[j] = points[k]
    /\ halted = ""
    /\ Len(_octree) = 1

\* the indices of the nodes of the tree that hold more points than the threshold
ParentIdx == {i \in 0..(Len(_octree) - 1) : At(_octree, i).N > _stats.STOP}

\* C14: while the process runs after a Make or Import that returned, the statistics
\* agree with the node list under the threshold STOP: the number of parents is the
\* number of nodes with N > STOP, the number of leaves that of the nodes with N <= STOP,
\* the two add up to the node count, the number of empty leaves is that of the leaves
\* with N = 0, LEAFCOUNTS lists the N of the leaves in node-list order, XMIN and XMAX are
\* its minimum and maximum, and the number of points is the N of the root.
C14_StatsAgree ==
    (origin.n >= 1 /\ halted = "") =>
        /\ _stats.NUMPARENTS = HumanizeComma(Cardinality(ParentIdx))
        /\ _stats.NUMLEAVES = HumanizeComma(Cardinality(LeafIdx))
        /\ Cardinality(ParentIdx) + Cardinality(LeafIdx) = _stats.SIZE
        /\ _stats.OCTREELEN = HumanizeComma(Len(_octree))
        /\ _stats.NUMEMPTY = HumanizeComma(Cardinality({i \in LeafIdx : At(_octree, i).N = 0}))
        /\ Len(_stats.LEAFCOUNTS) = Cardinality(LeafIdx)
        /\ \A j \in LeafIdx :
              _stats.LEAFCOUNTS[Cardinality({i \in LeafIdx : i <= j})] = At(_octree, j).N
        /\ \A j \in LeafIdx : _stats.XMIN <= At(_octree, j).N /\ At(_octree, j).N <= _stats.XMAX
        /\ \E j \in LeafIdx : _stats.XMIN = At(_octree, j).N
        /\ \E j \in LeafIdx : _stats.XMAX = At(_octree, j).N
        /\ _stats.NUMPTS = HumanizeComma(At(_octree, 0).N)

\* an imported tree with parents on two levels, a full leaf and an empty leaf
C14_Witness ==
    /\ origin.op = "Import"
    /\ halted = ""
    /\ Cardinality(ParentIdx) > 1
    /\ \E i \in LeafIdx : At(_octree, i).N = _stats.STOP
    /\ \E i \in LeafIdx : At(_octree, i).N = 0

\* the point p lies in octant k of center: on each axis a, bit a of k says whether p is
\* above the center
InOctant(center, p, k) == \A a \in 0..2 : Bit(k, a) = 1 <=> p[a + 1] > center[a + 1]

\* the identifiers of the points that reach node j of the tree of a Make: all of them
\* at node 0, and at a child the points of its parent that lie in the child's octant
RECURSIVE NodePts(_)
NodePts(j) ==
    IF j = 0 THEN DOMAIN points
    ELSE LET i == CHOOSE h \in ParentIdx : j \in Range(At(_octree, h).CHILDREN)
             k == CHOOSE o \in 0..7 : At(_octree, i).CHILDREN[o + 1] = j
         IN {p \in NodePts(i) : InOctant(At(_octree, i).CENTER, points[p], k)}

\* C15: in the tree of a Make that returned, every parent has 8 pairwise distinct
\* children, nodes of the list other than the root; the child of octant k holds as
\* many points as the parent's subset has in octant k of the parent's CENTER, so that
\* the children's N add up to the parent's; and a child without points is a leaf with
\* N = 0, empty KEYS and no children.
C15_EightChildren ==
    MadeTree =>
        \A i \in ParentIdx :
            /\ Cardinality(Range(At(_octree, i).CHILDREN)) = 8
            /\ \A k \in 0..7 :
                  /\ At(_octree, i).CHILDREN[k + 1] \in 1..(Len(_octree) - 1)
                  /\ At(_octree, At(_octree, i).CHILDREN[k + 1]).N
                        = Cardinality({p \in NodePts(i) : InOctant(At(_octree, i).CENTER, points[p], k)})
                  /\ (At(_octree, At(_octree, i).CHILDREN[k + 1]).N = 0
                      => /\ At(_octree, At(_octree, i).CHILDREN[k + 1]).KEYS = <<>>
                         /\ At(_octree, At(_octree, i).CHILDREN[k + 1]).CHILDREN = blankNode.CHILDREN)
            /\ SumSeq([k \in 1..8 |-> At(_octree, At(_octree, i).CHILDREN[k]).N]) = At(_octree, i).N

\* a parent below the root with a child that holds points and a child that holds none
C15_Witness ==
    /\ MadeTree
    /\ \E i \in ParentIdx \ {0} :
          /\ \E k \in 1..8 : At(_octree, At(_octree, i).CHILDREN[k]).N > 0
          /\ \E k \in 1..8 : At(_octree, At(_octree, i).CHILDREN[k]).N = 0

\* the r-th smallest, counted from 1 and with repetitions, of the coordinates a of the
\* points of refPoints
Ranked(refPoints, a, r) ==
    CHOOSE v \in {refPoints[i][a] : i \in DOMAIN refPoints} :
        /\ Cardinality({i \in DOMAIN refPoints : refPoints[i][a] < v}) < r
        /\ r <= Cardinality({i \in DOMAIN refPoints : refPoints[i][a] <= v})

\* C16: the "XYZ Medians" center of n >= 1 points is, on each axis, the middle one of
\* the n coordinates in ascending order when n is odd, and the mean of the two central
\* ones when n is even.
C16_AxisMedians ==
    last.op = "XYZ Medians" =>
        \A a \in 1..3 :
            IF Cardinality(DOMAIN last.arg[1]) % 2 = 1
            THEN last.ret[a] = Ranked(last.arg[1], a, (Cardinality(DOMAIN last.arg[1]) + 1) \div 2)
            ELSE 2 * last.ret[a] = Ranked(last.arg[1], a, Cardinality(DOMAIN last.arg[1]) \div 2)
                                   + Ranked(last.arg[1], a, Cardinality(DOMAIN last.arg[1]) \div 2 + 1)

\* four points whose two central x coordinates differ, and whose center lies between
C16_Witness ==
    /\ last.op = "XYZ Medians"
    /\ Cardinality(DOMAIN last.arg[1]) = 4
    /\ Ranked(last.arg[1], 1, 2) < last.ret[1]
    /\ last.ret[1] < Ranked(last.arg[1], 1, 3)

\* C17: one center computation by geometric median computes at most MaxIterations
\* estimates; it returns an estimate that differs from the one before it by less than
\* Tol on every axis, or it halts with MaxIterationsExceeded, with the counter at
\* MaxIterations or above and no estimate returned.
C17_IterationBound ==
    last.op = "Geometric Median" =>
        /\ last.ret.estimates <= MaxIterations
        /\ IF last.ret.halt = ""
           THEN /\ last.ret.center # NaN3
                /\ last.ret.diffs # NaN3
                /\ \A k \in 1..3 : last.ret.diffs[k] < Tol
           ELSE /\ last.ret.halt = "MaxIterationsExceeded"
                /\ last.ret.iterations >= MaxIterations
                /\ last.ret.center = NaN3

\* C18: a center computation by geometric median on a data set of which a point lies
\* exactly at the first estimate, the centroid, halts with the numerical-degeneracy
\* error.
C18_ZeroDistance ==
    (/\ last.op = "Geometric Median"
     /\ \E i \in DOMAIN last.arg[1] :
           \A k \in 1..3 :
               Cardinality(DOMAIN last.arg[1]) * last.arg[1][i][k]
                   = SumOver(DOMAIN last.arg[1], [j \in DOMAIN last.arg[1] |-> last.arg[1][j][k]]))
        => last.ret.halt = "NumericalDegeneracy"

\* C19: a Query, Export, Summarize or Histogram call leaves the node list, the
\* statistics with the metadata, and the builder closure as they were, and only Export
\* touches the file; so every Query returns after the call what it returned before it,
\* and Export writes what it would have written.
C19_ReadsOnly ==
    [][(last'.op \in {"Query", "Export", "Summarize", "Histogram"} /\ calls' = calls + 1)
       => /\ _octree' = _octree
          /\ _stats' = _stats
          /\ _builder' = _builder
          /\ (last'.op # "Export" => file' = file)
          /\ \A refQueryPt \in QueryPts :
                QueryCall(_octree', _stats', refQueryPt) = QueryCall(_octree, _stats, refQueryPt)
          /\ ExportCall(_octree', _stats', "demo.json") = ExportCall(_octree, _stats, "demo.json")]_vars

\* a Query that returned as the third call, after a Make or Import and one more call
\* that returned, on a tree whose leaf counts are not in ascending order
C19_Witness ==
    /\ last.op = "Query"
    /\ calls = 3
    /\ origin.n = 1
    /\ halted = ""
    /\ \E i \in 1..(Len(_stats.LEAFCOUNTS) - 1) : _stats.LEAFCOUNTS[i] > _stats.LEAFCOUNTS[i + 1]

\* the number of nodes of the subtree of node j
RECURSIVE SubtreeSize(_)
SubtreeSize(j) ==
    IF At(_octree, j).N > _stats.STOP
    THEN 1 + SumSeq([k \in 1..8 |-> SubtreeSize(At(_octree, j).CHILDREN[k])])
    ELSE 1

\* C20: in every run of the builder by Make, whatever its end, the node-index counter
\* was Len - 1 at each append; and in the tree of a Make that returned the counter is
\* the last index and the nodes are numbered in depth-first preorder: the octant-0 child
\* of a parent at index i is node i + 1, and the child of octant k + 1 follows the
\* child of octant k by the number of nodes of that child's subtree.
C20_Preorder ==
    /\ _builder.aligned
    /\ MadeTree =>
          /\ _builder.masterNodeIdx = Len(_octree) - 1
          /\ \A i \in ParentIdx :
                /\ At(_octree, i).CHILDREN[1] = i + 1
                /\ \A k \in 1..7 :
                      At(_octree, i).CHILDREN[k + 1]
                          = At(_octree, i).CHILDREN[k] + SubtreeSize(At(_octree, i).CHILDREN[k])

\* a tree in which a child of the root other than the last is a parent, so that the
\* next child's index is not the successor of its own
C20_Witness ==
    /\ MadeTree
    /\ _builder.aligned
    /\ \E k \in 1..7 :
          /\ At(_octree, At(_octree, 0).CHILDREN[k]).N > _stats.STOP
          /\ At(_octree, 0).CHILDREN[k + 1] > At(_octree, 0).CHILDREN[k] + 1

\* the methods whose center is a mean of the subset's coordinates
MeanMethods == {"Centroid", "DataMidPoint"}

\* the number of points of the data set that lie at the coordinates of point p
SharedCount(p) == Cardinality({q \in DOMAIN points : points[q] = points[p]})

\* C21: with the method "Centroid" or "DataMidPoint" (the coordinates of the data sets
\* make the means exact), a Make with a threshold above 1 on a data set in which no more
\* than terminal_N points share the same coordinates returns; and in the tree of such a
\* method every parent whose subset holds two points with different coordinates has at
\* least two children that hold points, and each of its children holds strictly fewer
\* points than the parent.
C21_MeanSplits ==
    /\ (/\ last.op = "Make"
        /\ last.arg[1] \in MeanMethods
        /\ last.arg[2] > 1
        /\ DOMAIN points # {}
        /\ \A p \in DOMAIN points : SharedCount(p) <= last.arg[2])
       => halted = ""
    /\ (MadeTree /\ _stats.HOW \in MeanMethods) =>
          \A i \in ParentIdx :
              (\E p, q \in NodePts(i) : points[p] # points[q]) =>
                  /\ Cardinality({k \in 1..8 : At(_octree, At(_octree, i).CHILDREN[k]).N > 0}) >= 2
                  /\ \A k \in 1..8 : At(_octree, At(_octree, i).CHILDREN[k]).N < At(_octree, i).N

\* a tree of such a method on a data set with two points at the same coordinates, in
\* which a parent below the root holds points of different coordinates
C21_Witness ==
    /\ MadeTree
    /\ last.op = "Make"
    /\ _stats.HOW \in MeanMethods
    /\ \E p \in DOMAIN points : SharedCount(p) = 2
    /\ \E i \in ParentIdx \ {0} : \E p, q \in NodePts(i) : points[p] # points[q]

\* C22: a Make with the method "XYZ Medians" and a threshold above 1 on a data set of
\* pairwise distinct points returns, and in its tree every parent has at least two
\* children that hold points and each child holds strictly fewer points than its parent.
C22_MedianSplits ==
    (/\ last.op = "Make"
     /\ last.arg[1] = "XYZ Medians"
     /\ last.arg[2] > 1
     /\ DOMAIN points # {}
     /\ \A p \in DOMAIN points : SharedCount(p) = 1)
    => /\ halted = ""
       /\ \A i \in ParentIdx :
              /\ Cardinality({k \in 1..8 : At(_octree, At(_octree, i).CHILDREN[k]).N > 0}) >= 2
              /\ \A k \in 1..8 : At(_octree, At(_octree, i).CHILDREN[k]).N < At(_octree, i).N

\* the halts of Make's validation
ValidationHalts == {"InvalidThreshold", "EmptyInput", "InvalidMethod"}

\* C23: a Make called while the engine holds the tree of an earlier Make or Import, with
\* a threshold of 1 or less, an empty data set or a method name that is none of the
\* four, halts in validation and leaves the engine as it was: the node list, the
\* statistics (method, threshold and node count among them) and the builder are those
\* of before the call, and Query on the state after the call gives at every query
\* point the result and the descent it gave on the state before.
C23_FailedMakeKeepsTree ==
    [][(/\ last'.op = "Make"
        /\ calls' = calls + 1
        /\ origin.n >= 1
        /\ \/ last'.arg[2] <= 1
           \/ DOMAIN points = {}
           \/ last'.arg[1] \notin Methods)
       => /\ halted' \in ValidationHalts
          /\ _octree' = _octree
          /\ _stats'.HOW = _stats.HOW
          /\ _stats'.STOP = _stats.STOP
          /\ _stats'.SIZE = _stats.SIZE
          /\ _stats' = _stats
          /\ _builder' = _builder
          /\ origin' = origin
          /\ \A q \in QueryPts : QueryCall(_octree', _stats', q) = QueryCall(_octree, _stats, q)]_vars

\* a Make on an empty data set has halted while the engine holds an imported tree
\* whose root lists a point
C23_Witness ==
    /\ last.op = "Make"
    /\ halted = "EmptyInput"
    /\ origin.op = "Import"
    /\ Len(_octree) >= 1
    /\ At(_octree, 0).KEYS # <<>>

====
